---- MODULE Spec2Model ----
(***************************************************************************)
(* Model of the docreader selective-extraction engine: the TextCleaner     *)
(* (textcleaner.go) and the page/line selection helpers (helpers.go,       *)
(* reader.go) with the PDF reader loop (pdf.go).                           *)
(*                                                                         *)
(* A Go string is a sequence of characters; a character is one of the      *)
(* tokens of Alphabet.  A []string is a sequence of such sequences.        *)
(***************************************************************************)
EXTENDS Integers, Sequences, FiniteSets, TLC

\* ---------------------------------------------------------------- bounds
MaxTextLen == 3
MaxTextLines == 5
MaxBlank == 2
MaxPages == 3
MaxLineCount == 3
MaxCalls == 2

MaxSlices == 2

MaxWrites == 2

\* the largest value of an int; ints are MinInt..MaxInt and wrap around
MaxInt == 15

\* ------------------------------------------------------------ characters
SP == "SP"
TAB == "TAB"
LF == "LF"
CR == "CR"
NUL == "NUL"

Alphabet == {"a", SP, TAB, LF, CR, NUL}

\* unicode.IsPrint: letters and the ASCII space; not tab, LF, CR, U+0000
IsPrint(c) == c \in {"a", SP}

\* unicode.IsSpace, as used by strings.TrimSpace
IsSpace(c) == c \in {SP, TAB, LF, CR}

\* the character class [ \t] of the regular expression in removeExtraSpaces
IsBlankChar(c) == c \in {SP, TAB}

\* ------------------------------------------------------- string helpers
RECURSIVE IndexOf(_, _, _)
IndexOf(s, c, i) ==
  IF i > Len(s) THEN 0
  ELSE IF s[i] = c THEN i
  ELSE IndexOf(s, c, i + 1)

\* strings.Split(text, sep) for a one-character separator
RECURSIVE Split(_, _)
Split(s, sep) ==
  LET i == IndexOf(s, sep, 1) IN
  IF i = 0 THEN <<s>>
  ELSE <<SubSeq(s, 1, i - 1)>> \o Split(SubSeq(s, i + 1, Len(s)), sep)

\* strings.Join(lines, sep)
RECURSIVE Join(_, _)
Join(lines, sep) ==
  IF lines = <<>> THEN <<>>
  ELSE IF Len(lines) = 1 THEN lines[1]
  ELSE lines[1] \o <<sep>> \o Join(Tail(lines), sep)

RECURSIVE TrimLeft(_)
TrimLeft(s) ==
  IF s # <<>> /\ IsSpace(Head(s)) THEN TrimLeft(Tail(s)) ELSE s

RECURSIVE TrimRight(_)
TrimRight(s) ==
  IF s # <<>> /\ IsSpace(s[Len(s)]) THEN TrimRight(SubSeq(s, 1, Len(s) - 1)) ELSE s

\* strings.TrimSpace
TrimSpace(s) == TrimRight(TrimLeft(s))

\* --------------------------------------------------------- TextCleaner
RemoveControlCharsKeep(c) == IsPrint(c) \/ c = LF \/ c = TAB \/ c = CR

removeControlChars(text) == SelectSeq(text, RemoveControlCharsKeep)

RECURSIVE DropBlankChars(_)
DropBlankChars(s) ==
  IF s # <<>> /\ IsBlankChar(Head(s)) THEN DropBlankChars(Tail(s)) ELSE s

\* faulty variant: collapses each pair of blanks instead of each maximal run
RECURSIVE removeExtraSpacesPairs(_)
removeExtraSpacesPairs(s) ==
  IF s = <<>> THEN <<>>
  ELSE IF Len(s) >= 2 /\ IsBlankChar(s[1]) /\ IsBlankChar(s[2])
       THEN <<SP>> \o removeExtraSpacesPairs(SubSeq(s, 3, Len(s)))
  ELSE IF IsBlankChar(s[1]) THEN <<SP>> \o removeExtraSpacesPairs(Tail(s))
  ELSE <<Head(s)>> \o removeExtraSpacesPairs(Tail(s))

\* regexp `[ \t]+` ReplaceAllString(text, " ")
RECURSIVE removeExtraSpaces(_)
removeExtraSpaces(s) ==
  IF s = <<>> THEN <<>>
  ELSE IF IsBlankChar(Head(s)) THEN <<SP>> \o removeExtraSpaces(DropBlankChars(s))
  ELSE <<Head(s)>> \o removeExtraSpaces(Tail(s))

\* strings.ReplaceAll(text, "\r\n", "\n")
RECURSIVE ReplaceCRLF(_)
ReplaceCRLF(s) ==
  IF s = <<>> THEN <<>>
  ELSE IF Len(s) >= 2 /\ s[1] = CR /\ s[2] = LF
       THEN <<LF>> \o ReplaceCRLF(SubSeq(s, 3, Len(s)))
  ELSE <<Head(s)>> \o ReplaceCRLF(Tail(s))

\* strings.ReplaceAll(text, "\r", "\n")
ReplaceCR(s) == [i \in 1..Len(s) |-> IF s[i] = CR THEN LF ELSE s[i]]

\* faulty variant: the replacement of "\r\n" left out
normalizeLineBreaksCROnly(text) == ReplaceCR(text)

normalizeLineBreaks(text) == ReplaceCR(ReplaceCRLF(text))

\* faulty variant: a leading line of white space dropped like an empty one
RECURSIVE DropLeadingBlank(_)
DropLeadingBlank(lines) ==
  IF lines # <<>> /\ TrimSpace(Head(lines)) = <<>> THEN DropLeadingBlank(Tail(lines))
  ELSE lines

RECURSIVE DropLeadingEmpty(_)
DropLeadingEmpty(lines) ==
  IF lines # <<>> /\ Head(lines) = <<>> THEN DropLeadingEmpty(Tail(lines)) ELSE lines

RECURSIVE DropTrailingEmpty(_)
DropTrailingEmpty(lines) ==
  IF lines # <<>> /\ lines[Len(lines)] = <<>>
  THEN DropTrailingEmpty(SubSeq(lines, 1, Len(lines) - 1))
  ELSE lines

\* faulty variant: an `if` in place of each `for`, one blank line removed at each end
trimEmptyLinesOnce(lines) ==
  LET a == IF lines # <<>> /\ Head(lines) = <<>> THEN Tail(lines) ELSE lines
  IN IF a # <<>> /\ a[Len(a)] = <<>> THEN SubSeq(a, 1, Len(a) - 1) ELSE a

trimEmptyLines(lines) == DropTrailingEmpty(DropLeadingEmpty(lines))

\* the per-line transformations at the head of the loop body
ProcessLine(tc, line) ==
  LET trimmed == IF tc.TrimSpaces THEN TrimSpace(line) ELSE line
  IN IF tc.RemoveExtraSpaces /\ trimmed # <<>> THEN removeExtraSpaces(trimmed) ELSE trimmed

\* faulty variant: the RemoveExtraBlankLines test left out
SkipBlankLineNoExtra(tc, consecutiveBlankLines) ==
  \/ tc.MaxConsecutiveBlankLines = 0
  \/ tc.MaxConsecutiveBlankLines > 0 /\ consecutiveBlankLines > tc.MaxConsecutiveBlankLines

\* faulty variant: the zero case left out
SkipBlankLineNoZero(tc, consecutiveBlankLines) ==
  \/ tc.MaxConsecutiveBlankLines > 0 /\ consecutiveBlankLines > tc.MaxConsecutiveBlankLines
  \/ /\ tc.RemoveExtraBlankLines
     /\ consecutiveBlankLines > 1
     /\ tc.MaxConsecutiveBlankLines # -1

\* the three `continue` conditions of the blank-line branch
SkipBlankLine(tc, consecutiveBlankLines) ==
  \/ tc.MaxConsecutiveBlankLines = 0
  \/ tc.MaxConsecutiveBlankLines > 0 /\ consecutiveBlankLines > tc.MaxConsecutiveBlankLines
  \/ /\ tc.RemoveExtraBlankLines
     /\ consecutiveBlankLines > 1
     /\ tc.MaxConsecutiveBlankLines # -1

\* the loop over the lines: one record per input line, the processed line and
\* whether the iteration reached the append
RECURSIVE CleanLoop(_, _, _, _, _)
CleanLoop(tc, lines, i, consecutiveBlankLines, acc) ==
  IF i > Len(lines) THEN acc
  ELSE LET line == ProcessLine(tc, lines[i])
           count == IF line = <<>> THEN consecutiveBlankLines + 1 ELSE 0
           skip == line = <<>> /\ SkipBlankLine(tc, count)
       IN CleanLoop(tc, lines, i + 1, count,
                    Append(acc, [line |-> line, emit |-> ~skip]))

CleanPass(tc, text) ==
  LET t1 == IF tc.RemoveControlChars THEN removeControlChars(text) ELSE text
  IN CleanLoop(tc, Split(normalizeLineBreaks(t1), LF), 1, 0, <<>>)

\* cleanedLines as the loop leaves it
Emitted(pass) ==
  LET kept == SelectSeq(pass, LAMBDA r : r.emit)
  IN [i \in 1..Len(kept) |-> kept[i].line]

Clean(tc, text) ==
  IF text = <<>> THEN <<>>
  ELSE Join(trimEmptyLines(Emitted(CleanPass(tc, text))), LF)

TextCleaners ==
  [RemoveExtraBlankLines : BOOLEAN, TrimSpaces : BOOLEAN, RemoveExtraSpaces : BOOLEAN,
   RemoveControlChars : BOOLEAN, MaxConsecutiveBlankLines : (0 - MaxBlank)..MaxBlank]

\* ------------------------------------------------- Selector, ReadConfig
\* A nil slice and an empty slice are both the empty sequence: the code tells
\* them apart only in buildGlobalLineFilter, where both give readAll = true.
EmptySelector == [Indexes |-> <<>>, Ranges |-> <<>>]

\* config == nil
NilConfig ==
  [isNil |-> TRUE, PageSelector |-> EmptySelector, LineSelector |-> EmptySelector,
   PageConfigs |-> <<>>, SheetNames |-> <<>>]

NewReadConfig ==
  [isNil |-> FALSE, PageSelector |-> EmptySelector, LineSelector |-> EmptySelector,
   PageConfigs |-> <<>>, SheetNames |-> <<>>]

\* faulty variant: the indexes added to those of an earlier call
WithPagesAdding(c, pgs) == [c EXCEPT !.PageSelector.Indexes = @ \o pgs]

WithPages(c, pgs) == [c EXCEPT !.PageSelector.Indexes = pgs]

WithPageRange(c, start, end) ==
  [c EXCEPT !.PageSelector.Ranges = Append(@, <<start, end>>)]

WithLines(c, lns) == [c EXCEPT !.LineSelector.Indexes = lns]

WithLineRange(c, start, end) ==
  [c EXCEPT !.LineSelector.Ranges = Append(@, <<start, end>>)]

WithSheetNames(c, names) == [c EXCEPT !.SheetNames = names]

AddPageConfig(c, pageIndex, lineIndexes, lineRanges) ==
  [c EXCEPT !.PageConfigs =
     Append(@, [PageIndex |-> pageIndex,
                LineSelector |-> [Indexes |-> lineIndexes, Ranges |-> lineRanges]])]

AddPageLines(c, pageIndex, lns) == AddPageConfig(c, pageIndex, lns, <<>>)

AddPageLineRange(c, pageIndex, start, end) ==
  AddPageConfig(c, pageIndex, <<>>, <<<<start, end>>>>)

\* ------------------------------------------------------------- helpers.go
\* `if start < 0 { start = 0 }`
ClampStart(start) == IF start < 0 THEN 0 ELSE start

\* faulty variant: the end of a range taken as exclusive
overrideLinesSetExclusive(sel) ==
  {sel.Indexes[k] : k \in {j \in 1..Len(sel.Indexes) : sel.Indexes[j] >= 0}}
    \cup UNION {ClampStart(sel.Ranges[k][1])..(sel.Ranges[k][2] - 1) :
                  k \in 1..Len(sel.Ranges)}

MinInt == -MaxInt - 1

\* i++ on an int
WrapInt(x) == ((x - MinInt) % (MaxInt - MinInt + 1)) + MinInt

\* `for i := start; i <= end; i++ { linesSet[i] = true }`, step by step: the
\* loop returns when i > end; once it has taken more steps than an int has
\* values, i has taken a value twice and the loop never exits
RECURSIVE RangeLoop(_, _, _, _)
RangeLoop(i, end, linesSet, steps) ==
  IF i > end THEN [lines |-> linesSet, returns |-> TRUE]
  ELSE IF steps > MaxInt - MinInt THEN [lines |-> linesSet, returns |-> FALSE]
  ELSE RangeLoop(WrapInt(i + 1), end, linesSet \cup {i}, steps + 1)

\* the range loops of a line selector all return
LineRangesReturn(sel) ==
  \A k \in 1..Len(sel.Ranges) :
    RangeLoop(ClampStart(sel.Ranges[k][1]), sel.Ranges[k][2], {}, 0).returns

\* linesSet of one per-page override: its indexes >= 0 and its ranges
overrideLinesSet(sel) ==
  {sel.Indexes[k] : k \in {j \in 1..Len(sel.Indexes) : sel.Indexes[j] >= 0}}
    \cup UNION {ClampStart(sel.Ranges[k][1])..sel.Ranges[k][2] : k \in 1..Len(sel.Ranges)}

\* linesSet of the global LineSelector
globalLinesSet(sel) ==
  {sel.Indexes[k] : k \in {j \in 1..Len(sel.Indexes) : sel.Indexes[j] >= 0}}
    \cup UNION {ClampStart(sel.Ranges[k][1])..sel.Ranges[k][2] : k \in 1..Len(sel.Ranges)}

buildGlobalLineFilter(c) ==
  IF c.isNil \/ (c.LineSelector.Indexes = <<>> /\ c.LineSelector.Ranges = <<>>)
  THEN [lines |-> {}, readAll |-> TRUE]
  ELSE LET linesSet == globalLinesSet(c.LineSelector)
       IN [lines |-> linesSet, readAll |-> linesSet = {}]

makeAllPagesSlice(totalPages) == [i \in 1..totalPages |-> i - 1]

\* `if end >= totalPages { end = totalPages - 1 }`
ClampEnd(end, totalPages) == IF end >= totalPages THEN totalPages - 1 ELSE end

\* pagesSet: the indexes within [0, totalPages) and the clamped ranges
pagesSetOf(sel, totalPages) ==
  {sel.Indexes[k] :
     k \in {j \in 1..Len(sel.Indexes) : sel.Indexes[j] >= 0 /\ sel.Indexes[j] < totalPages}}
    \cup UNION {ClampStart(sel.Ranges[k][1])..ClampEnd(sel.Ranges[k][2], totalPages) :
                  k \in 1..Len(sel.Ranges)}

\* the conversion of pagesSet to an ordered slice
RECURSIVE PagesInOrder(_, _, _)
PagesInOrder(pagesSet, i, totalPages) ==
  IF i >= totalPages THEN <<>>
  ELSE IF i \in pagesSet THEN <<i>> \o PagesInOrder(pagesSet, i + 1, totalPages)
  ELSE PagesInOrder(pagesSet, i + 1, totalPages)

\* faulty variant: an empty selector selects nothing
determinePagesToReadClosed(c, totalPages) ==
  IF c.isNil THEN makeAllPagesSlice(totalPages)
  ELSE PagesInOrder(pagesSetOf(c.PageSelector, totalPages), 0, totalPages)

\* faulty variant: the pages of Indexes in the order they are listed
determinePagesToReadAsListed(c, totalPages) ==
  IF c.isNil THEN makeAllPagesSlice(totalPages)
  ELSE LET pagesSet == pagesSetOf(c.PageSelector, totalPages)
           listed == SelectSeq(c.PageSelector.Indexes,
                               LAMBDA pg : pg >= 0 /\ pg < totalPages)
       IN IF pagesSet = {} THEN makeAllPagesSlice(totalPages)
          ELSE listed \o PagesInOrder(pagesSet \ {listed[k] : k \in 1..Len(listed)},
                                      0, totalPages)

determinePagesToRead(c, totalPages) ==
  IF c.isNil THEN makeAllPagesSlice(totalPages)
  ELSE LET pagesSet == pagesSetOf(c.PageSelector, totalPages)
       IN IF pagesSet = {} THEN makeAllPagesSlice(totalPages)
          ELSE PagesInOrder(pagesSet, 0, totalPages)

\* result[key] = value on a map held as a function
MapPut(m, key, value) ==
  [k \in (DOMAIN m) \cup {key} |-> IF k = key THEN value ELSE m[k]]

\* faulty variant: the range check of PageIndex left out
RECURSIVE OverridesLoopNoCheck(_, _, _, _)
OverridesLoopNoCheck(pageConfigs, i, totalPages, acc) ==
  IF i > Len(pageConfigs) THEN acc
  ELSE LET pageConfig == pageConfigs[i]
           linesSet == overrideLinesSet(pageConfig.LineSelector)
       IN OverridesLoopNoCheck(pageConfigs, i + 1, totalPages,
            MapPut(acc, pageConfig.PageIndex,
                   [lines |-> linesSet, readAll |-> linesSet = {}]))

\* faulty variant: a later override of a page is merged into the earlier one
RECURSIVE OverridesLoopUnion(_, _, _, _)
OverridesLoopUnion(pageConfigs, i, totalPages, acc) ==
  IF i > Len(pageConfigs) THEN acc
  ELSE LET pageConfig == pageConfigs[i]
           earlier == IF pageConfig.PageIndex \in DOMAIN acc
                      THEN acc[pageConfig.PageIndex].lines ELSE {}
           linesSet == overrideLinesSet(pageConfig.LineSelector) \cup earlier
       IN IF pageConfig.PageIndex < 0 \/ pageConfig.PageIndex >= totalPages
          THEN OverridesLoopUnion(pageConfigs, i + 1, totalPages, acc)
          ELSE OverridesLoopUnion(pageConfigs, i + 1, totalPages,
                 MapPut(acc, pageConfig.PageIndex,
                        [lines |-> linesSet, readAll |-> linesSet = {}]))

\* the loop over config.PageConfigs
RECURSIVE OverridesLoop(_, _, _, _)
OverridesLoop(pageConfigs, i, totalPages, acc) ==
  IF i > Len(pageConfigs) THEN acc
  ELSE LET pageConfig == pageConfigs[i]
           linesSet == overrideLinesSet(pageConfig.LineSelector)
       IN IF pageConfig.PageIndex < 0 \/ pageConfig.PageIndex >= totalPages
          THEN OverridesLoop(pageConfigs, i + 1, totalPages, acc)
          ELSE OverridesLoop(pageConfigs, i + 1, totalPages,
                 MapPut(acc, pageConfig.PageIndex,
                        [lines |-> linesSet, readAll |-> linesSet = {}]))

\* the global branch: every page to read gets the global line filter
GlobalPageLineMap(c, totalPages) ==
  LET pagesToRead == determinePagesToRead(c, totalPages)
      globalLineFilter == buildGlobalLineFilter(c)
  IN [p \in {pagesToRead[k] : k \in 1..Len(pagesToRead)} |-> globalLineFilter]

buildPageLineMap(c, totalPages) ==
  IF ~c.isNil /\ Len(c.PageConfigs) > 0
  THEN OverridesLoop(c.PageConfigs, 1, totalPages, <<>>)
  ELSE GlobalPageLineMap(c, totalPages)

\* faulty variant: the keep-set read as 1-based line numbers
\* the range loops of determinePagesToRead all return
PageRangesReturn(c, totalPages) ==
  c.isNil \/
    \A k \in 1..Len(c.PageSelector.Ranges) :
      RangeLoop(ClampStart(c.PageSelector.Ranges[k][1]),
                ClampEnd(c.PageSelector.Ranges[k][2], totalPages), {}, 0).returns

\* buildPageLineMap returns: every loop it runs exits
buildPageLineMapReturns(c, totalPages) ==
  IF ~c.isNil /\ Len(c.PageConfigs) > 0
  THEN \A k \in 1..Len(c.PageConfigs) :
         (c.PageConfigs[k].PageIndex < 0 \/ c.PageConfigs[k].PageIndex >= totalPages)
           \/ LineRangesReturn(c.PageConfigs[k].LineSelector)
  ELSE /\ PageRangesReturn(c, totalPages)
       /\ c.isNil \/ LineRangesReturn(c.LineSelector)

\* faulty variant: the keep-set read as 1-based line numbers
RECURSIVE FilterLoopOneBased(_, _, _)
FilterLoopOneBased(lines, filter, i) ==
  IF i >= Len(lines) THEN <<>>
  ELSE IF (i + 1) \in filter.lines
       THEN <<lines[i + 1]>> \o FilterLoopOneBased(lines, filter, i + 1)
  ELSE FilterLoopOneBased(lines, filter, i + 1)

RECURSIVE FilterLoop(_, _, _)
FilterLoop(lines, filter, i) ==
  IF i >= Len(lines) THEN <<>>
  ELSE IF i \in filter.lines THEN <<lines[i + 1]>> \o FilterLoop(lines, filter, i + 1)
  ELSE FilterLoop(lines, filter, i + 1)

filterLinesForPage(lines, filter) ==
  IF filter.readAll THEN lines ELSE FilterLoop(lines, filter, 0)

\* ----------------------------------------------------------------- pdf.go
\* A document: whether pdf.Open succeeds, the lines of each page (page p is
\* pages[p + 1]) and the pages whose decoding fails (null page, or an error of
\* GetPlainText).
PageLines(p, n) == [i \in 1..n |-> <<p, i - 1>>]

EmptyResult == [isNil |-> FALSE, TotalPages |-> 0, Pages |-> <<>>, TotalLines |-> 0,
                Content |-> <<>>]

NilResult == [EmptyResult EXCEPT !.isNil = TRUE]

\* the bytes appended to contentBuilder for one page: each line and its line
\* break, then the page marker
PdfPageContent(pageIndex, filteredLines) ==
  LET n == Len(filteredLines)
  IN [k \in 1..(2 * n) |->
        IF k % 2 = 1 THEN <<"line", filteredLines[(k + 1) \div 2]>> ELSE <<"nl", <<>>>>]
       \o <<<<"marker", <<pageIndex>>>>>>

\* the loop over pageIndex of PdfReader.ReadWithConfig
RECURSIVE PdfPageLoop(_, _, _, _)
PdfPageLoop(d, pageLineMap, pageIndex, res) ==
  IF pageIndex >= res.TotalPages THEN res
  ELSE IF pageIndex \notin DOMAIN pageLineMap
       THEN PdfPageLoop(d, pageLineMap, pageIndex + 1, res)
  ELSE IF pageIndex \in d.failed
       THEN PdfPageLoop(d, pageLineMap, pageIndex + 1, res)
  ELSE LET filteredLines == filterLinesForPage(d.pages[pageIndex + 1], pageLineMap[pageIndex])
           pageContent == [PageNumber |-> pageIndex, PageName |-> <<>>,
                           Lines |-> filteredLines, TotalLines |-> Len(filteredLines)]
       IN PdfPageLoop(d, pageLineMap, pageIndex + 1,
            [res EXCEPT !.Pages = Append(@, pageContent),
                        !.TotalLines = @ + Len(filteredLines),
                        !.Content = @ \o PdfPageContent(pageIndex, filteredLines)])

PdfReadWithConfig(d, c) ==
  IF ~d.open THEN [result |-> NilResult, err |-> "ErrFileOpen"]
  ELSE LET totalPages == Len(d.pages)
       IN [result |-> PdfPageLoop(d, buildPageLineMap(c, totalPages), 0,
                                  [EmptyResult EXCEPT !.TotalPages = totalPages]),
           err |-> "nil"]

\* ---------------------------------------------------------------- xlsx.go
\* the name of the sheet at an index of f.GetSheetList()
SheetName(i) == <<"sheet", i>>

\* the lines of a sheet: one per row that has a cell, rows without one skipped
XlsxLines(rows) == SelectSeq(rows, LAMBDA row : Len(row) # 0)

\* each line and its line break
LinesWithBreaks(filteredLines) ==
  [k \in 1..(2 * Len(filteredLines)) |->
     IF k % 2 = 1 THEN <<"line", filteredLines[(k + 1) \div 2]>> ELSE <<"nl", <<>>>>]

\* sheetNamesSet
sheetNamesSetOf(c) ==
  IF c.isNil THEN {} ELSE {c.SheetNames[k] : k \in 1..Len(c.SheetNames)}

\* sheetsToRead: from PageConfigs in list order, else from the page selector,
\* else from the sheet names, else every sheet
XlsxSheetsToRead(c, totalSheets) ==
  IF ~c.isNil /\ Len(c.PageConfigs) > 0
  THEN LET idx == [k \in 1..Len(c.PageConfigs) |-> c.PageConfigs[k].PageIndex]
       IN SelectSeq(idx, LAMBDA i : i >= 0 /\ i < totalSheets)
  ELSE IF ~c.isNil /\ (Len(c.PageSelector.Indexes) > 0 \/ Len(c.PageSelector.Ranges) > 0)
       THEN determinePagesToRead(c, totalSheets)
  ELSE IF sheetNamesSetOf(c) # {}
       THEN SelectSeq(makeAllPagesSlice(totalSheets),
                      LAMBDA i : SheetName(i) \in sheetNamesSetOf(c))
  ELSE makeAllPagesSlice(totalSheets)

\* the bytes appended to contentBuilder for one sheet: the marker, each line
\* and its line break, then one more line break
XlsxPageContent(sheetIndex, filteredLines) ==
  <<<<"marker", SheetName(sheetIndex)>>>> \o LinesWithBreaks(filteredLines) \o <<<<"sep", <<>>>>>>

\* the loop over sheetsToRead of XlsxReader.ReadWithConfig
RECURSIVE XlsxSheetLoop(_, _, _, _, _)
XlsxSheetLoop(d, pageLineMap, sheetsToRead, k, res) ==
  IF k > Len(sheetsToRead) THEN res
  ELSE LET sheetIndex == sheetsToRead[k]
       IN IF sheetIndex < 0 \/ sheetIndex >= res.TotalPages
          THEN XlsxSheetLoop(d, pageLineMap, sheetsToRead, k + 1, res)
          ELSE IF sheetIndex \in d.failed
          THEN XlsxSheetLoop(d, pageLineMap, sheetsToRead, k + 1, res)
          ELSE LET lines == XlsxLines(d.pages[sheetIndex + 1])
                   filteredLines ==
                     IF sheetIndex \in DOMAIN pageLineMap
                     THEN filterLinesForPage(lines, pageLineMap[sheetIndex])
                     ELSE lines
                   pageContent == [PageNumber |-> sheetIndex,
                                   PageName |-> SheetName(sheetIndex),
                                   Lines |-> filteredLines,
                                   TotalLines |-> Len(filteredLines)]
               IN XlsxSheetLoop(d, pageLineMap, sheetsToRead, k + 1,
                    [res EXCEPT !.Pages = Append(@, pageContent),
                                !.TotalLines = @ + Len(filteredLines),
                                !.Content = @ \o XlsxPageContent(sheetIndex, filteredLines)])

XlsxReadWithConfig(d, c) ==
  IF ~d.open THEN [result |-> NilResult, err |-> "ErrFileOpen"]
  ELSE LET totalSheets == Len(d.pages)
       IN [result |-> XlsxSheetLoop(d, buildPageLineMap(c, totalSheets),
                                    XlsxSheetsToRead(c, totalSheets), 1,
                                    [EmptyResult EXCEPT !.TotalPages = totalSheets]),
           err |-> "nil"]

\* ---------------------------------------------------------------- pptx.go
\* allSlides: the slides that open, read and unmarshal, in archive order; the
\* index of a slide is its position among them
RECURSIVE PptxAllSlides(_, _)
PptxAllSlides(d, p) ==
  IF p >= Len(d.pages) THEN <<>>
  ELSE IF p \in d.failed THEN PptxAllSlides(d, p + 1)
  ELSE <<d.pages[p + 1]>> \o PptxAllSlides(d, p + 1)

\* the bytes appended to contentBuilder for one slide: the marker, then each
\* line and its line break
PptxPageContent(slideIndex, filteredLines) ==
  <<<<"marker", <<slideIndex>>>>>> \o LinesWithBreaks(filteredLines)

\* the loop over slideIndex of PptxReader.ReadWithConfig
RECURSIVE PptxSlideLoop(_, _, _, _)
PptxSlideLoop(allSlides, pageLineMap, slideIndex, res) ==
  IF slideIndex >= res.TotalPages THEN res
  ELSE IF slideIndex \notin DOMAIN pageLineMap
       THEN PptxSlideLoop(allSlides, pageLineMap, slideIndex + 1, res)
  ELSE LET filteredLines ==
             filterLinesForPage(allSlides[slideIndex + 1], pageLineMap[slideIndex])
           pageContent == [PageNumber |-> slideIndex, PageName |-> <<>>,
                           Lines |-> filteredLines, TotalLines |-> Len(filteredLines)]
       IN PptxSlideLoop(allSlides, pageLineMap, slideIndex + 1,
            [res EXCEPT !.Pages = Append(@, pageContent),
                        !.TotalLines = @ + Len(filteredLines),
                        !.Content = @ \o PptxPageContent(slideIndex, filteredLines)])

PptxReadWithConfig(d, c) ==
  IF ~d.open THEN [result |-> NilResult, err |-> "ErrFileOpen"]
  ELSE LET allSlides == PptxAllSlides(d, 0)
           totalSlides == Len(allSlides)
       IN [result |-> PptxSlideLoop(allSlides, buildPageLineMap(c, totalSlides), 0,
                                    [EmptyResult EXCEPT !.TotalPages = totalSlides]),
           err |-> "nil"]

\* ------------------------------------------------------------------ md.go
\* the position of the first override of page 0, or 0 if there is none
RECURSIVE FirstPageZero(_, _)
FirstPageZero(pageConfigs, k) ==
  IF k > Len(pageConfigs) THEN 0
  ELSE IF pageConfigs[k].PageIndex = 0 THEN k
  ELSE FirstPageZero(pageConfigs, k + 1)

filterLinesForSinglePage(lines, c) ==
  IF ~c.isNil /\ Len(c.PageConfigs) > 0
  THEN LET k == FirstPageZero(c.PageConfigs, 1)
       IN IF k = 0 THEN <<>>
          ELSE LET linesSet == overrideLinesSet(c.PageConfigs[k].LineSelector)
               IN filterLinesForPage(lines, [lines |-> linesSet, readAll |-> linesSet = {}])
  ELSE LET pageLineMap == buildPageLineMap(c, 1)
       IN IF 0 \in DOMAIN pageLineMap THEN filterLinesForPage(lines, pageLineMap[0])
          ELSE lines

\* strings.Join(filteredLines, "\n")
JoinedLines(filteredLines) ==
  [k \in 1..(IF filteredLines = <<>> THEN 0 ELSE 2 * Len(filteredLines) - 1) |->
     IF k % 2 = 1 THEN <<"line", filteredLines[(k + 1) \div 2]>> ELSE <<"nl", <<>>>>]

MdReadWithConfig(d, c) ==
  IF ~d.open THEN [result |-> NilResult, err |-> "ErrFileRead"]
  ELSE LET filteredLines == filterLinesForSinglePage(d.pages[1], c)
           pageContent == [PageNumber |-> 0, PageName |-> <<>>,
                           Lines |-> filteredLines, TotalLines |-> Len(filteredLines)]
       IN [result |-> [isNil |-> FALSE, TotalPages |-> 1, Pages |-> <<pageContent>>,
                       TotalLines |-> Len(filteredLines),
                       Content |-> JoinedLines(filteredLines)],
           err |-> "nil"]

\* ------------------------------------------- errors.go, reader.go (dispatch)
\* a *DocumentError, or nil; errors.Is goes through Unwrap to Err
NoError == [isNil |-> TRUE, Op |-> "", Err |-> "nil"]

NewError(op, e) == [isNil |-> FALSE, Op |-> op, Err |-> e]

WrapError(op, e) == IF e = "nil" THEN NoError ELSE NewError(op, e)

ErrorsIs(e, target) == ~e.isNil /\ e.Err = target

IsUnsupportedFormat(e) == ErrorsIs(e, "ErrUnsupportedFormat")

IsFileNotFound(e) == ErrorsIs(e, "ErrFileNotFound")

\* os.IsNotExist on the error of os.Stat: true of ENOENT alone
IsNotExist(stat) == stat = "ENOENT"

UpperCase ==
  <<"A", "B", "C", "D", "E", "F", "G", "H", "I", "J", "K", "L", "M",
    "N", "O", "P", "Q", "R", "S", "T", "U", "V", "W", "X", "Y", "Z">>

LowerCase ==
  <<"a", "b", "c", "d", "e", "f", "g", "h", "i", "j", "k", "l", "m",
    "n", "o", "p", "q", "r", "s", "t", "u", "v", "w", "x", "y", "z">>

ToLowerChar(ch) ==
  IF \E i \in 1..26 : UpperCase[i] = ch
  THEN LowerCase[CHOOSE i \in 1..26 : UpperCase[i] = ch]
  ELSE ch

\* strings.ToLower
ToLower(str) == [i \in 1..Len(str) |-> ToLowerChar(str[i])]

\* filepath.Ext: the suffix from the last dot of the last element of the path
RECURSIVE ExtFrom(_, _)
ExtFrom(path, i) ==
  IF i < 1 \/ path[i] = "/" THEN <<>>
  ELSE IF path[i] = "." THEN SubSeq(path, i, Len(path))
  ELSE ExtFrom(path, i - 1)

Ext(path) == ExtFrom(path, Len(path))

\* the cases of the switch on ext
ReaderCases ==
  <<[ext |-> <<".", "d", "o", "c", "x">>, reader |-> "DocxReader"],
    [ext |-> <<".", "p", "d", "f">>, reader |-> "PdfReader"],
    [ext |-> <<".", "x", "l", "s", "x">>, reader |-> "XlsxReader"],
    [ext |-> <<".", "p", "p", "t", "x">>, reader |-> "PptxReader"],
    [ext |-> <<".", "t", "x", "t">>, reader |-> "TxtReader"],
    [ext |-> <<".", "c", "s", "v">>, reader |-> "CsvReader"],
    [ext |-> <<".", "m", "d">>, reader |-> "MdReader"],
    [ext |-> <<".", "m", "a", "r", "k", "d", "o", "w", "n">>, reader |-> "MdReader"],
    [ext |-> <<".", "r", "t", "f">>, reader |-> "RtfReader"]>>

\* the reader the switch selects, "none" in the default case
ReaderFor(ext) ==
  IF \E k \in 1..Len(ReaderCases) : ReaderCases[k].ext = ext
  THEN ReaderCases[CHOOSE k \in 1..Len(ReaderCases) : ReaderCases[k].ext = ext].reader
  ELSE "none"

\* the error of a reader that cannot get at the file
ReaderFailure(r) ==
  IF r \in {"TxtReader", "MdReader", "RtfReader"} THEN "ErrFileRead" ELSE "ErrFileOpen"

\* what a reader may return for a file: an error when the file is not there
\* or cannot be reached, else a result or an error
ReaderOutcomes(r, info) ==
  IF info.exists /\ info.stat = "nil" THEN {"nil", ReaderFailure(r)} ELSE {ReaderFailure(r)}

\* faulty variant: the format is looked at before the file
ReadDocumentFormatFirst(op, path, info, outcome) ==
  LET r == ReaderFor(ToLower(Ext(path)))
  IN IF r = "none"
     THEN [document |-> "nil", err |-> WrapError(op, "ErrUnsupportedFormat"), reader |-> "none"]
     ELSE IF IsNotExist(info.stat)
     THEN [document |-> "nil", err |-> WrapError(op, "ErrFileNotFound"), reader |-> "none"]
     ELSE IF outcome # "nil"
     THEN [document |-> "nil", err |-> WrapError(r, outcome), reader |-> r]
     ELSE [document |-> "document", err |-> NoError, reader |-> r]

\* ReadDocument and ReadDocumentWithConfig: the existence check, the switch,
\* the call of the reader, whose outcome is returned
ReadDocument(op, path, info, outcome) ==
  IF IsNotExist(info.stat)
  THEN [document |-> "nil", err |-> WrapError(op, "ErrFileNotFound"), reader |-> "none"]
  ELSE LET r == ReaderFor(ToLower(Ext(path)))
       IN IF r = "none"
          THEN [document |-> "nil", err |-> WrapError(op, "ErrUnsupportedFormat"),
                reader |-> "none"]
          ELSE IF outcome # "nil"
          THEN [document |-> "nil", err |-> WrapError(r, outcome), reader |-> r]
          ELSE [document |-> "document", err |-> NoError, reader |-> r]

\* ------------------------------------------------ reader.go (formats)
\* var supportedFormats
supportedFormats ==
  <<<<".", "d", "o", "c", "x">>, <<".", "p", "d", "f">>, <<".", "x", "l", "s", "x">>,
    <<".", "p", "p", "t", "x">>, <<".", "t", "x", "t">>, <<".", "c", "s", "v">>,
    <<".", "m", "d">>, <<".", "m", "a", "r", "k", "d", "o", "w", "n">>,
    <<".", "r", "t", "f">>>>

\* Memory is a map from the address of a backing array to its elements; the
\* array of supportedFormats is at address 0, a slice is the address of its
\* array.
\* faulty variant: the slice of the package is returned itself
GetSupportedFormatsAlias(mem) == [mem |-> mem, formats |-> 0]

\* make a new array, copy supportedFormats into it, return it
GetSupportedFormats(mem) ==
  LET new == Cardinality(DOMAIN mem)
  IN [mem |-> MapPut(mem, new, mem[0]), formats |-> new]

\* slices.Contains
Contains(q, v) == \E k \in 1..Len(q) : q[k] = v

IsFormatSupported(mem, e) ==
  LET lower == ToLower(e)
      dotted == IF lower # <<>> /\ lower[1] = "." THEN lower ELSE <<".">> \o lower
  IN Contains(mem[0], dotted)

\* ------------------------------------------------------------- inputs
CharTexts == UNION {[1..n -> Alphabet] : n \in 0..MaxTextLen}

LineKinds == {<<>>, <<"a">>}

LineTexts == {Join(ls, LF) : ls \in UNION {[1..n -> LineKinds] : n \in 1..MaxTextLines}}

Texts == CharTexts \cup LineTexts

\* arguments of the builder calls: a run of indexes, a single index, indexes
\* that are out of bounds; a range, an inverted range, ranges that reach below
\* zero or beyond the end
PageIndexArgs == {<<0, 1, 2>>, <<1>>, <<-1, MaxPages>>}

PageRangeArgs == {<<0, 2>>, <<2, 0>>, <<-1, 1>>, <<0, 10>>, <<MaxPages, MaxPages + 1>>}

LineIndexArgs == {<<0, 1, 2>>, <<1>>, <<-1>>}

LineRangeArgs == {<<0, 2>>, <<2, 0>>, <<-1, 1>>}

OverridePageArgs == {-1, 0, 1}

OverrideIndexArgs == {<<>>, <<0, 1, 2>>, <<-1>>}

OverrideRangeArgs == {<<0, 2>>, <<2, 0>>}

\* documents: up to MaxPages pages of equal length, at most one page failing
Docs ==
  {[open |-> FALSE, pages |-> <<>>, failed |-> {}]}
    \cup {[open |-> TRUE, pages |-> [p \in 1..n |-> PageLines(p - 1, len)], failed |-> {}] :
            n \in 0..MaxPages, len \in 0..MaxLineCount}
    \cup UNION {{[open |-> TRUE, pages |-> [p \in 1..n |-> PageLines(p - 1, MaxLineCount)],
                   failed |-> {f}] : f \in {0, n - 1}} : n \in 1..MaxPages}

\* strings.Split never returns an empty slice: a PDF page has a line
PdfDocs == {d \in Docs : \A p \in 1..Len(d.pages) : Len(d.pages[p]) >= 1}

\* a workbook may have a row without cells
XlsxDocs ==
  Docs \cup {[open |-> TRUE,
              pages |-> <<<<<<0, 0>>, <<>>, <<0, 2>>>>, PageLines(1, MaxLineCount)>>,
              failed |-> {}]}

PptxDocs == Docs

\* a Markdown file: unreadable, or one page of at least one line
MdDocs ==
  {d \in Docs : ~d.open \/ (Len(d.pages) = 1 /\ d.failed = {} /\ Len(d.pages[1]) >= 1)}

SheetNameArgs == {<<SheetName(1)>>, <<SheetName(0), SheetName(MaxPages)>>}

\* the configurations handed to the readers: nil, a fresh one, one selector
\* set, sheet names, sheet names with pages or with an override, one override,
\* two overrides in any order, two overrides of page 0 that keep different lines
ReadConfigs ==
  {NilConfig, NewReadConfig}
    \cup {WithPages(NewReadConfig, pgs) : pgs \in PageIndexArgs}
    \cup {WithPageRange(NewReadConfig, r[1], r[2]) : r \in PageRangeArgs}
    \cup {WithLines(NewReadConfig, lns) : lns \in LineIndexArgs}
    \cup {WithLineRange(NewReadConfig, r[1], r[2]) : r \in LineRangeArgs}
    \cup {WithSheetNames(NewReadConfig, names) : names \in SheetNameArgs}
    \cup {WithSheetNames(WithPages(NewReadConfig, pgs), names) :
            pgs \in PageIndexArgs, names \in SheetNameArgs}
    \cup {WithSheetNames(AddPageLines(NewReadConfig, p, lns), names) :
            p \in OverridePageArgs, lns \in OverrideIndexArgs, names \in SheetNameArgs}
    \cup {AddPageLines(NewReadConfig, p, lns) :
            p \in OverridePageArgs, lns \in OverrideIndexArgs}
    \cup {AddPageLines(AddPageLines(NewReadConfig, p1, l1), p2, l2) :
            p1 \in OverridePageArgs, l1 \in OverrideIndexArgs,
            p2 \in OverridePageArgs, l2 \in OverrideIndexArgs}
    \cup {AddPageLines(AddPageLines(NewReadConfig, 0, l1), 0, l2) :
            l1, l2 \in {<<1>>, <<0, 2>>}}

\* configurations with a range that ends at the largest int
OpenEndedConfigs ==
  {WithPageRange(NewReadConfig, 1, MaxInt),
   WithLineRange(NewReadConfig, 1, MaxInt),
   AddPageLineRange(NewReadConfig, 0, 1, MaxInt),
   AddPageLineRange(NewReadConfig, MaxPages, 1, MaxInt),
   WithLineRange(NewReadConfig, MinInt, 1)}

\* file paths: each format, upper case, no extension, a dot in a directory
\* name only, an unknown extension, a path below a regular file
FilePaths ==
  {<<"a">> \o ReaderCases[k].ext : k \in 1..Len(ReaderCases)}
    \cup {<<"a", ".", "P", "D", "F">>, <<"a", ".", "M", "d">>, <<"a">>,
          <<"a", ".", "x", "y", "z">>, <<"a", ".", "p", "d", "f", "x">>,
          <<"d", ".", "p", "d", "f", "/", "a">>,
          <<"a", ".", "t", "x", "t", "/", "b", ".", "p", "d", "f">>,
          <<"a", ".", "t", "x", "t", "/", "b", ".", "x", "y", "z">>}

\* what os.Stat may return for a path: nil for a file that is there; ENOENT
\* for one that is not; below a directory also ENOTDIR (a component of the
\* path is a regular file, the path does not exist) and EACCES (a directory
\* may not be searched)
FileInfos(path) ==
  {[exists |-> TRUE, stat |-> "nil"], [exists |-> FALSE, stat |-> "ENOENT"]}
    \cup (IF \E i \in 1..Len(path) : path[i] = "/"
          THEN {[exists |-> FALSE, stat |-> "ENOTDIR"], [exists |-> TRUE, stat |-> "EACCES"]}
          ELSE {})

\* what a caller writes into a slice it was given, and where
WrittenFormats == {<<".", "t", "e", "s", "t">>, <<".", "p", "d", "f">>}

WrittenAt == {1, Len(supportedFormats)}

\* the arguments of IsFormatSupported
ExtArgs ==
  {<<".", "p", "d", "f">>, <<"p", "d", "f">>, <<".", "P", "D", "F">>, <<"R", "t", "f">>,
   <<".", "d", "o", "c", "x">>, <<".", "t", "e", "s", "t">>, <<"t", "e", "s", "t">>}

\* ---------------------------------------------------------------- state
VARIABLES tc, text, pass, result, result2, pcClean,
          config, calls, pcSel, totalPages, doc, pagesToRead, lineFilter, pageLineMap,
          docResult, err,
          fLines, fFilter, filteredLines, pcFilter,
          filePath, fileInfo, api, reader, document, docErr, pcRead,
          arrays, held, writes, formats, writesBefore, ext, supported,
          docResult2, err2,
          history

cleanVars == <<tc, text, pass, result, result2, pcClean>>

selVars == <<config, calls, pcSel, totalPages, doc, pagesToRead, lineFilter, pageLineMap,
             docResult, err>>

filterVars == <<fLines, fFilter, filteredLines, pcFilter>>

dispatchVars == <<filePath, fileInfo, api, reader, document, docErr, pcRead>>

formatVars == <<arrays, held, writes, formats, writesBefore, ext, supported>>

repeatVars == <<docResult2, err2>>

buildVars == <<history>>

auxVars == <<filterVars, dispatchVars, formatVars, repeatVars, buildVars>>

vars == <<cleanVars, selVars, auxVars>>

NoDoc == [open |-> FALSE, pages |-> <<>>, failed |-> {}]

\* the TextCleaner before any call
CleanIdle ==
  /\ tc = [RemoveExtraBlankLines |-> TRUE, TrimSpaces |-> TRUE, RemoveExtraSpaces |-> TRUE,
           RemoveControlChars |-> TRUE, MaxConsecutiveBlankLines |-> 1]
  /\ text = <<>>
  /\ pass = <<>>
  /\ result = <<>>
  /\ result2 = <<>>
  /\ pcClean = "idle"

\* no configuration under construction, nothing resolved
SelIdle ==
  /\ config = NilConfig
  /\ calls = 0
  /\ pcSel = "idle"
  /\ totalPages = 0
  /\ doc = NoDoc
  /\ pagesToRead = <<>>
  /\ lineFilter = [lines |-> {}, readAll |-> TRUE]
  /\ pageLineMap = <<>>
  /\ docResult = NilResult
  /\ err = "nil"

\* no call of filterLinesForPage under way
FilterIdle ==
  /\ fLines = <<>>
  /\ fFilter = [lines |-> {}, readAll |-> TRUE]
  /\ filteredLines = <<>>
  /\ pcFilter = "idle"

\* no call of ReadDocument or ReadDocumentWithConfig under way
DispatchIdle ==
  /\ filePath = <<>>
  /\ fileInfo = [exists |-> FALSE, stat |-> "ENOENT"]
  /\ api = "none"
  /\ reader = "none"
  /\ document = "nil"
  /\ docErr = NoError
  /\ pcRead = "idle"

\* the package as loaded: the backing array of supportedFormats at address
\* 0, no slice handed out, no call made
FormatsIdle ==
  /\ arrays = [a \in {0} |-> supportedFormats]
  /\ held = <<>>
  /\ writes = 0
  /\ formats = <<>>
  /\ writesBefore = 0
  /\ ext = <<>>
  /\ supported = IsFormatSupported([a \in {0} |-> supportedFormats], <<>>)

\* no read repeated
RepeatIdle ==
  /\ docResult2 = NilResult
  /\ err2 = "none"

\* no builder call logged
BuildIdle == history = <<>>

AuxIdle == FilterIdle /\ DispatchIdle /\ FormatsIdle /\ RepeatIdle /\ BuildIdle

InitClean ==
  /\ tc \in TextCleaners
  /\ text \in Texts
  /\ pass = <<>>
  /\ result = <<>>
  /\ result2 = <<>>
  /\ pcClean = "input"
  /\ SelIdle
  /\ AuxIdle

\* result := tc.Clean(text)
CleanCall ==
  /\ pcClean = "input"
  /\ pass' = (IF text = <<>> THEN <<>> ELSE CleanPass(tc, text))
  /\ result' = Clean(tc, text)
  /\ pcClean' = "cleaned"
  /\ UNCHANGED <<tc, text, result2>>
  /\ UNCHANGED selVars
  /\ UNCHANGED auxVars

\* result2 := tc.Clean(result)
CleanAgain ==
  /\ pcClean = "cleaned"
  /\ result2' = Clean(tc, result)
  /\ pcClean' = "recleaned"
  /\ UNCHANGED <<tc, text, pass, result>>
  /\ UNCHANGED selVars
  /\ UNCHANGED auxVars

NextClean == CleanCall \/ CleanAgain

SpecClean == InitClean /\ [][NextClean]_vars

\* ------------------------------------------- configuration and selection
\* a caller holds nil or a fresh NewReadConfig()
InitSelect ==
  /\ CleanIdle
  /\ AuxIdle
  /\ config \in {NilConfig, NewReadConfig}
  /\ calls = 0
  /\ pcSel = "config"
  /\ totalPages = 0
  /\ doc = NoDoc
  /\ pagesToRead = <<>>
  /\ lineFilter = [lines |-> {}, readAll |-> TRUE]
  /\ pageLineMap = <<>>
  /\ docResult = NilResult
  /\ err = "nil"

CanBuild == pcSel = "config" /\ ~config.isNil /\ calls < MaxCalls

Built(c) ==
  /\ config' = c
  /\ calls' = calls + 1
  /\ UNCHANGED <<pcSel, totalPages, doc, pagesToRead, lineFilter, pageLineMap, docResult, err>>
  /\ UNCHANGED cleanVars
  /\ UNCHANGED auxVars

CallWithPages ==
  /\ CanBuild
  /\ \E pgs \in PageIndexArgs : Built(WithPages(config, pgs))

CallWithPageRange ==
  /\ CanBuild
  /\ \E r \in PageRangeArgs : Built(WithPageRange(config, r[1], r[2]))

CallWithLines ==
  /\ CanBuild
  /\ \E lns \in LineIndexArgs : Built(WithLines(config, lns))

CallWithLineRange ==
  /\ CanBuild
  /\ \E r \in LineRangeArgs : Built(WithLineRange(config, r[1], r[2]))

CallAddPageLines ==
  /\ CanBuild
  /\ \E p \in OverridePageArgs, lns \in OverrideIndexArgs :
       Built(AddPageLines(config, p, lns))

CallAddPageLineRange ==
  /\ CanBuild
  /\ \E p \in OverridePageArgs, r \in OverrideRangeArgs :
       Built(AddPageLineRange(config, p, r[1], r[2]))

CallAddPageConfig ==
  /\ CanBuild
  /\ \E p \in OverridePageArgs :
       Built(AddPageConfig(config, p, <<1>>, <<<<-1, 1>>>>))

\* pagesToRead := determinePagesToRead(config, totalPages)
CallDeterminePagesToRead ==
  /\ pcSel = "config"
  /\ \E n \in 0..MaxPages :
       /\ totalPages' = n
       /\ IF PageRangesReturn(config, n)
          THEN pagesToRead' = determinePagesToRead(config, n) /\ pcSel' = "pages"
          ELSE pagesToRead' = pagesToRead /\ pcSel' = "spin"
  /\ UNCHANGED <<config, calls, doc, lineFilter, pageLineMap, docResult, err>>
  /\ UNCHANGED cleanVars
  /\ UNCHANGED auxVars

\* lineFilter := buildGlobalLineFilter(config)
CallBuildGlobalLineFilter ==
  /\ pcSel = "config"
  /\ lineFilter' = buildGlobalLineFilter(config)
  /\ pcSel' = "filter"
  /\ UNCHANGED <<config, calls, totalPages, doc, pagesToRead, pageLineMap, docResult, err>>
  /\ UNCHANGED cleanVars
  /\ UNCHANGED auxVars

\* pageLineMap := buildPageLineMap(config, totalPages); the call does not
\* return ("spin") when one of its loops does not exit
CallBuildPageLineMap ==
  /\ pcSel = "config"
  /\ \E n \in 0..MaxPages :
       /\ totalPages' = n
       /\ IF buildPageLineMapReturns(config, n)
          THEN pageLineMap' = buildPageLineMap(config, n) /\ pcSel' = "map"
          ELSE pageLineMap' = pageLineMap /\ pcSel' = "spin"
  /\ UNCHANGED <<config, calls, doc, pagesToRead, lineFilter, docResult, err>>
  /\ UNCHANGED cleanVars
  /\ UNCHANGED auxVars

\* docResult, err := (&PdfReader{}).ReadWithConfig(doc, config)
CallPdfReadWithConfig ==
  /\ pcSel = "config"
  /\ \E d \in PdfDocs :
       /\ doc' = d
       /\ totalPages' = Len(d.pages)
       /\ docResult' = PdfReadWithConfig(d, config).result
       /\ err' = PdfReadWithConfig(d, config).err
       /\ pageLineMap' = (IF d.open THEN buildPageLineMap(config, Len(d.pages)) ELSE <<>>)
  /\ pcSel' = "pdf"
  /\ UNCHANGED <<config, calls, pagesToRead, lineFilter>>
  /\ UNCHANGED cleanVars
  /\ UNCHANGED auxVars

NextSelect ==
  \/ CallWithPages
  \/ CallWithPageRange
  \/ CallWithLines
  \/ CallWithLineRange
  \/ CallAddPageLines
  \/ CallAddPageLineRange
  \/ CallAddPageConfig
  \/ CallDeterminePagesToRead
  \/ CallBuildGlobalLineFilter
  \/ CallBuildPageLineMap
  \/ CallPdfReadWithConfig

SpecSelect == InitSelect /\ [][NextSelect]_vars

\* ---------------------------------------------------------- the readers
\* a caller holds one of the configurations and a file of some format
InitRead ==
  /\ CleanIdle
  /\ AuxIdle
  /\ config \in ReadConfigs
  /\ calls = 0
  /\ pcSel = "config"
  /\ totalPages = 0
  /\ doc = NoDoc
  /\ pagesToRead = <<>>
  /\ lineFilter = [lines |-> {}, readAll |-> TRUE]
  /\ pageLineMap = <<>>
  /\ docResult = NilResult
  /\ err = "nil"

\* docResult, err := (&XlsxReader{}).ReadWithConfig(doc, config)
CallXlsxReadWithConfig ==
  /\ pcSel = "config"
  /\ \E d \in XlsxDocs :
       /\ doc' = d
       /\ totalPages' = Len(d.pages)
       /\ docResult' = XlsxReadWithConfig(d, config).result
       /\ err' = XlsxReadWithConfig(d, config).err
       /\ pageLineMap' = (IF d.open THEN buildPageLineMap(config, Len(d.pages)) ELSE <<>>)
  /\ pcSel' = "xlsx"
  /\ UNCHANGED <<config, calls, pagesToRead, lineFilter>>
  /\ UNCHANGED cleanVars
  /\ UNCHANGED auxVars

\* docResult, err := (&PptxReader{}).ReadWithConfig(doc, config)
CallPptxReadWithConfig ==
  /\ pcSel = "config"
  /\ \E d \in PptxDocs :
       /\ doc' = d
       /\ totalPages' = Len(PptxAllSlides(d, 0))
       /\ docResult' = PptxReadWithConfig(d, config).result
       /\ err' = PptxReadWithConfig(d, config).err
       /\ pageLineMap' = (IF d.open THEN buildPageLineMap(config, Len(PptxAllSlides(d, 0)))
                          ELSE <<>>)
  /\ pcSel' = "pptx"
  /\ UNCHANGED <<config, calls, pagesToRead, lineFilter>>
  /\ UNCHANGED cleanVars
  /\ UNCHANGED auxVars

\* faulty variant: the single-page reader consumes the overrides it applied
CallMdReadWithConfigConsuming ==
  /\ pcSel = "config"
  /\ \E d \in MdDocs :
       /\ doc' = d
       /\ totalPages' = (IF d.open THEN 1 ELSE 0)
       /\ docResult' = MdReadWithConfig(d, config).result
       /\ err' = MdReadWithConfig(d, config).err
  /\ config' = (IF config.isNil THEN config ELSE [config EXCEPT !.PageConfigs = <<>>])
  /\ pcSel' = "md"
  /\ UNCHANGED <<calls, pagesToRead, lineFilter, pageLineMap>>
  /\ UNCHANGED cleanVars
  /\ UNCHANGED auxVars

\* docResult, err := (&MdReader{}).ReadWithConfig(doc, config)
CallMdReadWithConfig ==
  /\ pcSel = "config"
  /\ \E d \in MdDocs :
       /\ doc' = d
       /\ totalPages' = (IF d.open THEN 1 ELSE 0)
       /\ docResult' = MdReadWithConfig(d, config).result
       /\ err' = MdReadWithConfig(d, config).err
  /\ pcSel' = "md"
  /\ UNCHANGED <<config, calls, pagesToRead, lineFilter, pageLineMap>>
  /\ UNCHANGED cleanVars
  /\ UNCHANGED auxVars

\* reader.ReadWithConfig(filePath, config) for the reader of a format
ReadWithConfig(format, d, c) ==
  IF format = "pdf" THEN PdfReadWithConfig(d, c)
  ELSE IF format = "xlsx" THEN XlsxReadWithConfig(d, c)
  ELSE IF format = "pptx" THEN PptxReadWithConfig(d, c)
  ELSE MdReadWithConfig(d, c)

\* the caller reads the same file again, with the configuration as the first
\* call left it
CallReadAgain ==
  /\ pcSel \in {"pdf", "xlsx", "pptx", "md"}
  /\ err2 = "none"
  /\ docResult2' = ReadWithConfig(pcSel, doc, config).result
  /\ err2' = ReadWithConfig(pcSel, doc, config).err
  /\ UNCHANGED <<cleanVars, selVars, filterVars, dispatchVars, formatVars, buildVars>>

NextRead ==
  \/ CallPdfReadWithConfig
  \/ CallXlsxReadWithConfig
  \/ CallPptxReadWithConfig
  \/ CallMdReadWithConfig
  \/ CallReadAgain

SpecRead == InitRead /\ [][NextRead]_vars

\* -------------------------------------------------- resolution, any input
InitResolve ==
  /\ CleanIdle
  /\ AuxIdle
  /\ config \in ReadConfigs \cup OpenEndedConfigs
  /\ calls = 0
  /\ pcSel = "config"
  /\ totalPages = 0
  /\ doc = NoDoc
  /\ pagesToRead = <<>>
  /\ lineFilter = [lines |-> {}, readAll |-> TRUE]
  /\ pageLineMap = <<>>
  /\ docResult = NilResult
  /\ err = "nil"

NextResolve == CallDeterminePagesToRead \/ CallBuildPageLineMap

SpecResolve == InitResolve /\ [][NextResolve]_vars

\* --------------------------------------------------------------- dispatch
InitDispatch ==
  /\ CleanIdle
  /\ SelIdle
  /\ RepeatIdle
  /\ BuildIdle
  /\ FilterIdle
  /\ FormatsIdle
  /\ filePath \in FilePaths
  /\ fileInfo \in FileInfos(filePath)
  /\ api = "none"
  /\ reader = "none"
  /\ document = "nil"
  /\ docErr = NoError
  /\ pcRead = "file"

\* the call of either function: its results, whatever the reader returns
Dispatched(op) ==
  /\ \E outcome \in ReaderOutcomes(ReaderFor(ToLower(Ext(filePath))), fileInfo) :
       LET r == ReadDocument(op, filePath, fileInfo, outcome)
       IN /\ document' = r.document
          /\ docErr' = r.err
          /\ reader' = r.reader
  /\ api' = op
  /\ pcRead' = "returned"
  /\ UNCHANGED <<filePath, fileInfo>>
  /\ UNCHANGED cleanVars
  /\ UNCHANGED selVars
  /\ UNCHANGED repeatVars
  /\ UNCHANGED buildVars
  /\ UNCHANGED filterVars
  /\ UNCHANGED formatVars

\* document, docErr := ReadDocument(filePath)
CallReadDocument ==
  /\ pcRead = "file"
  /\ Dispatched("ReadDocument")

\* document, docErr := ReadDocumentWithConfig(filePath, config)
CallReadDocumentWithConfig ==
  /\ pcRead = "file"
  /\ Dispatched("ReadDocumentWithConfig")

NextDispatch == CallReadDocument \/ CallReadDocumentWithConfig

SpecDispatch == InitDispatch /\ [][NextDispatch]_vars

\* ---------------------------------------------------- supported formats
InitFormats ==
  /\ CleanIdle
  /\ SelIdle
  /\ RepeatIdle
  /\ BuildIdle
  /\ FilterIdle
  /\ DispatchIdle
  /\ FormatsIdle

\* formats := GetSupportedFormats(), the caller keeps the slice
CallGetSupportedFormats ==
  /\ Len(held) < MaxSlices
  /\ arrays' = GetSupportedFormats(arrays).mem
  /\ held' = Append(held, GetSupportedFormats(arrays).formats)
  /\ formats' = GetSupportedFormats(arrays).mem[GetSupportedFormats(arrays).formats]
  /\ writesBefore' = writes
  /\ UNCHANGED <<writes, ext, supported>>
  /\ UNCHANGED cleanVars
  /\ UNCHANGED selVars
  /\ UNCHANGED repeatVars
  /\ UNCHANGED buildVars
  /\ UNCHANGED filterVars
  /\ UNCHANGED dispatchVars

\* formats[i] = v by a caller, on a slice it was given
CallerWrites ==
  /\ writes < MaxWrites
  /\ \E k \in 1..Len(held), i \in WrittenAt, v \in WrittenFormats :
       arrays' = [arrays EXCEPT ![held[k]][i] = v]
  /\ writes' = writes + 1
  /\ UNCHANGED <<held, formats, writesBefore, ext, supported>>
  /\ UNCHANGED cleanVars
  /\ UNCHANGED selVars
  /\ UNCHANGED repeatVars
  /\ UNCHANGED buildVars
  /\ UNCHANGED filterVars
  /\ UNCHANGED dispatchVars

\* supported := IsFormatSupported(ext)
CallIsFormatSupported ==
  /\ \E e \in ExtArgs :
       /\ ext' = e
       /\ supported' = IsFormatSupported(arrays, e)
  /\ UNCHANGED <<arrays, held, writes, formats, writesBefore>>
  /\ UNCHANGED cleanVars
  /\ UNCHANGED selVars
  /\ UNCHANGED repeatVars
  /\ UNCHANGED buildVars
  /\ UNCHANGED filterVars
  /\ UNCHANGED dispatchVars

NextFormats == CallGetSupportedFormats \/ CallerWrites \/ CallIsFormatSupported

SpecFormats == InitFormats /\ [][NextFormats]_vars

\* ------------------------------------------------------ line filtering
\* the filters buildGlobalLineFilter and buildPageLineMap construct: a set of
\* line indexes >= 0, readAll exactly when the set is empty
LineFilters ==
  {[lines |-> S, readAll |-> S = {}] : S \in SUBSET (0..(MaxLineCount + 1))}

InitFilter ==
  /\ CleanIdle
  /\ SelIdle
  /\ RepeatIdle
  /\ BuildIdle
  /\ DispatchIdle
  /\ FormatsIdle
  /\ fLines \in {PageLines(0, n) : n \in 0..MaxLineCount}
  /\ fFilter \in LineFilters
  /\ filteredLines = <<>>
  /\ pcFilter = "input"

\* filteredLines := filterLinesForPage(fLines, fFilter)
CallFilterLinesForPage ==
  /\ pcFilter = "input"
  /\ filteredLines' = filterLinesForPage(fLines, fFilter)
  /\ pcFilter' = "filtered"
  /\ UNCHANGED <<fLines, fFilter>>
  /\ UNCHANGED dispatchVars
  /\ UNCHANGED formatVars
  /\ UNCHANGED cleanVars
  /\ UNCHANGED selVars
  /\ UNCHANGED repeatVars
  /\ UNCHANGED buildVars

NextFilter == CallFilterLinesForPage

SpecFilter == InitFilter /\ [][NextFilter]_vars

\* ------------------------------------------------ the builder, call by call
\* one call of a builder method: its name and its arguments
BuilderCall(name, pageIndex, indexes, ranges, names) ==
  [name |-> name, pageIndex |-> pageIndex, indexes |-> indexes, ranges |-> ranges,
   names |-> names]

InitBuild ==
  /\ CleanIdle
  /\ FilterIdle
  /\ DispatchIdle
  /\ FormatsIdle
  /\ RepeatIdle
  /\ BuildIdle
  /\ config = NewReadConfig
  /\ calls = 0
  /\ pcSel = "config"
  /\ totalPages = 0
  /\ doc = NoDoc
  /\ pagesToRead = <<>>
  /\ lineFilter = [lines |-> {}, readAll |-> TRUE]
  /\ pageLineMap = <<>>
  /\ docResult = NilResult
  /\ err = "nil"

\* config = config.<method>(<arguments>), the call noted
Chained(c, call) ==
  /\ config' = c
  /\ calls' = calls + 1
  /\ history' = Append(history, call)
  /\ UNCHANGED <<pcSel, totalPages, doc, pagesToRead, lineFilter, pageLineMap, docResult, err>>
  /\ UNCHANGED <<cleanVars, filterVars, dispatchVars, formatVars, repeatVars>>

ChainWithPages ==
  /\ calls < MaxCalls
  /\ \E pgs \in PageIndexArgs :
       Chained(WithPages(config, pgs), BuilderCall("WithPages", 0, pgs, <<>>, <<>>))

ChainWithPageRange ==
  /\ calls < MaxCalls
  /\ \E r \in PageRangeArgs :
       Chained(WithPageRange(config, r[1], r[2]),
               BuilderCall("WithPageRange", 0, <<>>, <<r>>, <<>>))

ChainWithLines ==
  /\ calls < MaxCalls
  /\ \E lns \in LineIndexArgs :
       Chained(WithLines(config, lns), BuilderCall("WithLines", 0, lns, <<>>, <<>>))

ChainWithLineRange ==
  /\ calls < MaxCalls
  /\ \E r \in LineRangeArgs :
       Chained(WithLineRange(config, r[1], r[2]),
               BuilderCall("WithLineRange", 0, <<>>, <<r>>, <<>>))

ChainWithSheetNames ==
  /\ calls < MaxCalls
  /\ \E names \in SheetNameArgs :
       Chained(WithSheetNames(config, names),
               BuilderCall("WithSheetNames", 0, <<>>, <<>>, names))

ChainAddPageConfig ==
  /\ calls < MaxCalls
  /\ \E p \in OverridePageArgs :
       Chained(AddPageConfig(config, p, <<1>>, <<<<-1, 1>>>>),
               BuilderCall("AddPageConfig", p, <<1>>, <<<<-1, 1>>>>, <<>>))

ChainAddPageLines ==
  /\ calls < MaxCalls
  /\ \E p \in OverridePageArgs, lns \in OverrideIndexArgs :
       Chained(AddPageLines(config, p, lns),
               BuilderCall("AddPageLines", p, lns, <<>>, <<>>))

ChainAddPageLineRange ==
  /\ calls < MaxCalls
  /\ \E p \in OverridePageArgs, r \in OverrideRangeArgs :
       Chained(AddPageLineRange(config, p, r[1], r[2]),
               BuilderCall("AddPageLineRange", p, <<>>, <<r>>, <<>>))

NextBuild ==
  \/ ChainWithPages
  \/ ChainWithPageRange
  \/ ChainWithLines
  \/ ChainWithLineRange
  \/ ChainWithSheetNames
  \/ ChainAddPageConfig
  \/ ChainAddPageLines
  \/ ChainAddPageLineRange

SpecBuild == InitBuild /\ [][NextBuild]_vars

\* ------------------------------------------------- TextCleaner properties
Min(a, b) == IF a < b THEN a ELSE b

\* the processed line of every loop iteration, in input order
ProcessedLines == [i \in 1..Len(pass) |-> pass[i].line]

\* the lines of the returned text
ResultLines == IF result = <<>> THEN <<>> ELSE Split(result, LF)

\* position of line i within its run of consecutive blank lines (0 if not blank)
RECURSIVE RunPos(_, _)
RunPos(lines, i) ==
  IF i = 0 \/ lines[i] # <<>> THEN 0 ELSE 1 + RunPos(lines, i - 1)

NonBlank(lines) == SelectSeq(lines, LAMBDA l : l # <<>>)

NonBlankIdx(lines) == {i \in 1..Len(lines) : lines[i] # <<>>}

\* the lengths of the blank runs between consecutive non-blank lines, in order
RECURSIVE GapsFrom(_, _, _)
GapsFrom(lines, i, last) ==
  IF i > Len(lines) THEN <<>>
  ELSE IF lines[i] = <<>> THEN GapsFrom(lines, i + 1, last)
  ELSE IF last = 0 THEN GapsFrom(lines, i + 1, i)
  ELSE <<i - last - 1>> \o GapsFrom(lines, i + 1, i)

Gaps(lines) == GapsFrom(lines, 1, 0)

HasAdjacentLF(s) == \E i \in 1..(Len(s) - 1) : s[i] = LF /\ s[i + 1] = LF

\* C1: Clean is idempotent: cleaning the cleaned text again, with the same
\* options, returns it unchanged.
C1_Idempotent == pcClean = "recleaned" => result2 = result

C1_Witness ==
  /\ pcClean = "recleaned"
  /\ result # text
  /\ result # <<>>
  /\ \E i \in 1..Len(result) : result[i] = LF

\* C2: the returned text never starts and never ends with an empty line, and
\* it is the empty text when every processed line is blank.
C2_BoundaryTrim ==
  pcClean # "input" =>
    /\ ResultLines # <<>> => Head(ResultLines) # <<>> /\ ResultLines[Len(ResultLines)] # <<>>
    /\ NonBlankIdx(ProcessedLines) = {} => result = <<>>

C2_Witness ==
  /\ pcClean = "cleaned"
  /\ Len(pass) >= 4
  /\ pass[1].line = <<>> /\ pass[1].emit
  /\ pass[2].line = <<>> /\ pass[2].emit
  /\ pass[Len(pass)].line = <<>> /\ pass[Len(pass)].emit
  /\ result # <<>>

\* C3 as claimed: with MaxConsecutiveBlankLines = N > 0 a blank line is emitted
\* iff its position in its run is <= N, and an interior run of k blank lines is
\* returned as min(k, N) blank lines, whatever the other options.
C3_Original ==
  (pcClean # "input" /\ tc.MaxConsecutiveBlankLines > 0) =>
    /\ \A i \in 1..Len(pass) :
         pass[i].line = <<>> =>
           (pass[i].emit <=> RunPos(ProcessedLines, i) <= tc.MaxConsecutiveBlankLines)
    /\ Gaps(ResultLines) =
         [j \in 1..Len(Gaps(ProcessedLines)) |->
            Min(Gaps(ProcessedLines)[j], tc.MaxConsecutiveBlankLines)]

\* the limit in force for a positive MaxConsecutiveBlankLines
BlankLimit == IF tc.RemoveExtraBlankLines THEN 1 ELSE tc.MaxConsecutiveBlankLines

\* C3 (amended): with MaxConsecutiveBlankLines = N > 0 a blank line is emitted
\* iff its position in its run is <= N when RemoveExtraBlankLines is false and
\* <= 1 when it is true; an interior run of k blank lines is returned as
\* min(k, N), resp. one, blank line(s).
C3_PositiveLimit ==
  (pcClean # "input" /\ tc.MaxConsecutiveBlankLines > 0) =>
    /\ \A i \in 1..Len(pass) :
         pass[i].line = <<>> =>
           (pass[i].emit <=> RunPos(ProcessedLines, i) <= BlankLimit)
    /\ Gaps(ResultLines) =
         [j \in 1..Len(Gaps(ProcessedLines)) |-> Min(Gaps(ProcessedLines)[j], BlankLimit)]

C3_Witness ==
  /\ pcClean = "cleaned"
  /\ tc.MaxConsecutiveBlankLines = 2
  /\ ~tc.RemoveExtraBlankLines
  /\ Gaps(ProcessedLines) = <<3>>
  /\ Gaps(ResultLines) = <<2>>

\* C4: with a negative MaxConsecutiveBlankLines no blank line is skipped by the
\* loop and every interior run of blank lines is returned whole.
C4_NegativeUnlimited ==
  (pcClean # "input" /\ tc.MaxConsecutiveBlankLines < 0) =>
    /\ \A i \in 1..Len(pass) : pass[i].emit
    /\ Gaps(ResultLines) = Gaps(ProcessedLines)

SeqRange(q) == {q[k] : k \in 1..Len(q)}

IsEmptySelector(sel) == sel.Indexes = <<>> /\ sel.Ranges = <<>>

\* the indices a selector lists: its indexes and the members of its ranges
Listed(sel) ==
  SeqRange(sel.Indexes) \cup UNION {sel.Ranges[k][1]..sel.Ranges[k][2] : k \in 1..Len(sel.Ranges)}

ResultPageNumbers == {docResult.Pages[k].PageNumber : k \in 1..Len(docResult.Pages)}

OverridePages(c) == {c.PageConfigs[k].PageIndex : k \in 1..Len(c.PageConfigs)}

\* C6: for a page selector that lists an index or a range, determinePagesToRead
\* returns exactly the listed indices that lie in [0, totalPages).
C6_ExactSelection ==
  (pcSel = "pages" /\ ~config.isNil /\ ~IsEmptySelector(config.PageSelector)) =>
    SeqRange(pagesToRead) = Listed(config.PageSelector) \cap (0..(totalPages - 1))

\* C7: an empty selector is default-open: with a nil config or an empty page
\* selector determinePagesToRead returns 0..totalPages-1; an empty global line
\* selector gives a read-all filter, and the reader returns every line of every
\* page it reads.
C7_DefaultOpen ==
  /\ (pcSel = "pages" /\ (config.isNil \/ IsEmptySelector(config.PageSelector))) =>
       pagesToRead = [i \in 1..totalPages |-> i - 1]
  /\ (pcSel = "filter" /\ IsEmptySelector(config.LineSelector)) => lineFilter.readAll
  /\ (pcSel = "pdf" /\ err = "nil" /\ config.PageConfigs = <<>>
        /\ IsEmptySelector(config.LineSelector)) =>
       /\ \A k \in 1..Len(docResult.Pages) :
            docResult.Pages[k].Lines = doc.pages[docResult.Pages[k].PageNumber + 1]
       /\ IsEmptySelector(config.PageSelector) =>
            ResultPageNumbers = (0..(totalPages - 1)) \ doc.failed

C7_Witness ==
  /\ pcSel = "pdf"
  /\ config = NewReadConfig
  /\ IsEmptySelector(config.PageSelector)
  /\ IsEmptySelector(config.LineSelector)
  /\ config.PageConfigs = <<>>
  /\ Len(docResult.Pages) = MaxPages
  /\ docResult.TotalLines = MaxPages * MaxLineCount

\* a selector whose only entries are the indexes a, a+1, .., b
IsRun(sel) ==
  /\ sel.Ranges = <<>>
  /\ sel.Indexes # <<>>
  /\ \A k \in 1..Len(sel.Indexes) : sel.Indexes[k] = sel.Indexes[1] + k - 1

\* the same set written as one inclusive range
AsRange(sel) ==
  IF IsRun(sel)
  THEN [Indexes |-> <<>>, Ranges |-> <<<<sel.Indexes[1], sel.Indexes[Len(sel.Indexes)]>>>>]
  ELSE sel

RangeForm(c) ==
  [c EXCEPT !.PageSelector = AsRange(@),
            !.LineSelector = AsRange(@),
            !.PageConfigs = [k \in 1..Len(@) |-> [@[k] EXCEPT !.LineSelector = AsRange(@)]]]

\* C8: indexes a..b and the range (a, b) resolve identically, as page selector,
\* as global line selector and as line selector of a per-page override: the
\* pages, the filters and the lines the reader returns are those of the
\* configuration with every such run rewritten as a range.
C8_IndexesAsRange ==
  /\ pcSel = "pages" => pagesToRead = determinePagesToRead(RangeForm(config), totalPages)
  /\ pcSel = "filter" => lineFilter = buildGlobalLineFilter(RangeForm(config))
  /\ pcSel = "map" => pageLineMap = buildPageLineMap(RangeForm(config), totalPages)
  /\ pcSel = "pdf" => docResult = PdfReadWithConfig(doc, RangeForm(config)).result

C8_Witness ==
  /\ pcSel = "pdf"
  /\ ~config.isNil
  /\ config.PageSelector = [Indexes |-> <<0, 1, 2>>, Ranges |-> <<>>]
  /\ config.LineSelector = [Indexes |-> <<0, 1, 2>>, Ranges |-> <<>>]
  /\ Len(docResult.Pages) = 3
  /\ docResult.TotalLines = 9

C10_UnnamedPagesRead ==
  (pcSel = "pdf" /\ err = "nil" /\ ~config.isNil /\ config.PageConfigs # <<>>) =>
    \A p \in SeqRange(determinePagesToRead(config, totalPages)) \ doc.failed :
      p \notin OverridePages(config) =>
        \E k \in 1..Len(docResult.Pages) :
          /\ docResult.Pages[k].PageNumber = p
          /\ docResult.Pages[k].Lines =
               filterLinesForPage(doc.pages[p + 1], buildGlobalLineFilter(config))

\* the position in PageConfigs of the last override that names page p
LastOverride(c, p) ==
  CHOOSE k \in 1..Len(c.PageConfigs) :
    /\ c.PageConfigs[k].PageIndex = p
    /\ \A j \in (k + 1)..Len(c.PageConfigs) : c.PageConfigs[j].PageIndex # p

\* the overrides that name page p
OverridesOf(c, p) == {k \in 1..Len(c.PageConfigs) : c.PageConfigs[k].PageIndex = p}

C12_KeepAllIffEmpty ==
  /\ (pcSel = "filter" /\ ~config.isNil) =>
       (lineFilter.readAll <=> IsEmptySelector(config.LineSelector))
  /\ (pcSel = "map" /\ ~config.isNil /\ config.PageConfigs # <<>>) =>
       \A p \in DOMAIN pageLineMap :
         pageLineMap[p].readAll <=>
           IsEmptySelector(config.PageConfigs[LastOverride(config, p)].LineSelector)
  /\ (pcSel = "pdf" /\ err = "nil" /\ ~config.isNil) =>
       \A k \in 1..Len(docResult.Pages) :
         LET p == docResult.Pages[k].PageNumber
             sel == IF config.PageConfigs # <<>>
                    THEN config.PageConfigs[LastOverride(config, p)].LineSelector
                    ELSE config.LineSelector
         IN (~IsEmptySelector(sel) /\ overrideLinesSet(sel) = {}) =>
              docResult.Pages[k].Lines = <<>>

\* ---------------------------------------------- line filtering properties
\* the positions of fLines that filterLinesForPage is to retain
Retained ==
  IF fFilter.readAll THEN 1..Len(fLines)
  ELSE {i + 1 : i \in {j \in fFilter.lines : 0 <= j /\ j < Len(fLines)}}

\* the members of a set of positions of q, in ascending order
RECURSIVE Pick(_, _, _)
Pick(q, S, i) ==
  IF i > Len(q) THEN <<>>
  ELSE IF i \in S THEN <<q[i]>> \o Pick(q, S, i + 1)
  ELSE Pick(q, S, i + 1)

\* C13: filterLinesForPage returns a subsequence of the lines in their order:
\* the lines themselves under readAll, else line i iff i is in the keep-set and
\* 0 <= i < len(lines); the result is no longer than the lines nor, without
\* readAll, than the keep-set has indexes.
C13_FilterSubsequence ==
  pcFilter = "filtered" =>
    /\ filteredLines = Pick(fLines, Retained, 1)
    /\ fFilter.readAll => filteredLines = fLines
    /\ Len(filteredLines) <= Len(fLines)
    /\ ~fFilter.readAll => Len(filteredLines) <= Cardinality(fFilter.lines)

C13_Witness ==
  /\ pcFilter = "filtered"
  /\ ~fFilter.readAll
  /\ Len(fLines) = 2
  /\ fFilter.lines = {1, MaxLineCount, MaxLineCount + 1}
  /\ filteredLines = <<fLines[2]>>

\* ------------------------------------------------------ reader properties
MultiPage == pcSel \in {"pdf", "xlsx", "pptx"} /\ err = "nil"

\* C14: the Pages of a multi-page reader are in strictly ascending PageNumber
\* order, each page at most once, whatever the order and the repetitions of
\* the overrides in PageConfigs.
C14_PagesAscending ==
  MultiPage =>
    \A k \in 1..(Len(docResult.Pages) - 1) :
      docResult.Pages[k].PageNumber < docResult.Pages[k + 1].PageNumber

\* C15: a page that is not a key of the page-line map is not in Pages, and no
\* error is raised: for the multi-page readers, and for a single-page reader
\* (page universe {0}), whose result has no PageContent when page 0 is not in
\* the map.
C15_UnmappedPagesDropped ==
  /\ MultiPage => \A k \in 1..Len(docResult.Pages) :
                    docResult.Pages[k].PageNumber \in DOMAIN pageLineMap
  /\ (pcSel \in {"pdf", "xlsx", "pptx", "md"} /\ doc.open) => err = "nil"
  /\ (pcSel = "md" /\ doc.open) =>
       \A k \in 1..Len(docResult.Pages) :
         docResult.Pages[k].PageNumber \in DOMAIN buildPageLineMap(config, 1)

\* the marker of a page of the result
MarkerOf(page) ==
  IF pcSel = "xlsx" THEN <<"marker", page.PageName>> ELSE <<"marker", <<page.PageNumber>>>>

\* the marker of each page, then its lines, each with its line break
RECURSIVE MarkerFirstContent(_, _)
MarkerFirstContent(pages, k) ==
  IF k > Len(pages) THEN <<>>
  ELSE <<MarkerOf(pages[k])>> \o LinesWithBreaks(pages[k].Lines)
         \o MarkerFirstContent(pages, k + 1)

\* C16: Content of a multi-page reader is, page after page of Pages, the
\* marker of the page, then the retained lines of the page, each followed by
\* one line break, all before the marker of the next page (a separating line
\* break between pages apart).
C16_MarkerBeforeLines ==
  MultiPage =>
    SelectSeq(docResult.Content, LAMBDA tok : tok[1] # "sep")
      = MarkerFirstContent(docResult.Pages, 1)

\* the reader of the call, applied to a document
ReadWith(d) ==
  IF pcSel = "pdf" THEN PdfReadWithConfig(d, config)
  ELSE IF pcSel = "xlsx" THEN XlsxReadWithConfig(d, config)
  ELSE PptxReadWithConfig(d, config)

\* C17: when a page fails to decode the multi-page reader returns without
\* error, and its Pages are those it returns when no page fails, less the
\* failed page: the same PageNumber and the same lines for every other page.
C17_SkipOnlyFailedPage ==
  (pcSel \in {"pdf", "xlsx", "pptx"} /\ doc.open /\ doc.failed # {}) =>
    /\ err = "nil"
    /\ docResult.Pages =
         SelectSeq(ReadWith([doc EXCEPT !.failed = {}]).result.Pages,
                   LAMBDA page : page.PageNumber \notin doc.failed)

\* ------------------------------------------------- resolution properties
\* C18: buildPageLineMap and determinePagesToRead return for every
\* configuration and every totalPages >= 0, and every key of the map and
\* every page of the slice lies in [0, totalPages).
C18_Total ==
  /\ pcSel # "spin"
  /\ pcSel = "map" => DOMAIN pageLineMap \subseteq 0..(totalPages - 1)
  /\ pcSel = "pages" => SeqRange(pagesToRead) \subseteq 0..(totalPages - 1)

\* whenever the call returns the keys and the pages are in [0, totalPages),
\* and a loop that returns has set the indexes start..end
ResolvedInRange ==
  /\ pcSel = "map" => DOMAIN pageLineMap \subseteq 0..(totalPages - 1)
  /\ pcSel = "pages" => SeqRange(pagesToRead) \subseteq 0..(totalPages - 1)
  /\ \A k \in 1..Len(config.LineSelector.Ranges) :
       LET r == config.LineSelector.Ranges[k]
           loop == RangeLoop(ClampStart(r[1]), r[2], {}, 0)
       IN loop.returns => loop.lines = ClampStart(r[1])..r[2]

\* ---------------------------------------------------- dispatch properties
\* C19: ReadDocument and ReadDocumentWithConfig look at the file before the
\* format: a path that does not exist gives an error that IsFileNotFound
\* accepts, whatever the extension; a file that exists and whose lower-cased
\* extension has no reader gives one that IsUnsupportedFormat accepts; in
\* both cases no document is returned and no reader is called.
C19_ExistenceBeforeFormat ==
  pcRead = "returned" =>
    /\ ~fileInfo.exists =>
         IsFileNotFound(docErr) /\ document = "nil" /\ reader = "none"
    /\ (fileInfo.exists /\ ReaderFor(ToLower(Ext(filePath))) = "none") =>
         IsUnsupportedFormat(docErr) /\ document = "nil" /\ reader = "none"

\* the same of the paths that os.Stat reports as not existing (ENOENT)
NotExistBeforeFormat ==
  pcRead = "returned" =>
    /\ IsNotExist(fileInfo.stat) =>
         IsFileNotFound(docErr) /\ document = "nil" /\ reader = "none"
    /\ (fileInfo.exists /\ ReaderFor(ToLower(Ext(filePath))) = "none") =>
         IsUnsupportedFormat(docErr) /\ document = "nil" /\ reader = "none"

\* ----------------------------------------------------- formats properties
\* C20: GetSupportedFormats returns a copy: whatever callers write into the
\* slices they were given, the list of the package is the original one, every
\* call of GetSupportedFormats returns it, and IsFormatSupported answers as it
\* does on the original list.
C20_ReturnsCopy ==
  /\ arrays[0] = supportedFormats
  /\ held # <<>> => formats = supportedFormats
  /\ supported = IsFormatSupported([a \in {0} |-> supportedFormats], ext)

C20_Witness ==
  /\ Len(held) = 2
  /\ writesBefore > 0
  /\ arrays[held[1]] # supportedFormats
  /\ formats = supportedFormats
  /\ ext = <<".", "P", "D", "F">>
  /\ supported

\* C21: for XLSX, SheetNames names the sheets to read: when it is set, every
\* PageContent of the result is a sheet whose name is in SheetNames, whatever
\* the other fields of the configuration; when it is not set (and nothing else
\* selects pages) every sheet that can be read is returned.
C21_SheetNamesSelect ==
  (pcSel = "xlsx" /\ err = "nil") =>
    /\ (~config.isNil /\ config.SheetNames # <<>>) =>
         \A k \in 1..Len(docResult.Pages) :
           docResult.Pages[k].PageName \in SeqRange(config.SheetNames)
    /\ (config.isNil \/ (config.SheetNames = <<>> /\ config.PageConfigs = <<>>
                          /\ IsEmptySelector(config.PageSelector))) =>
         ResultPageNumbers = (0..(totalPages - 1)) \ doc.failed

Stripped == IF tc.RemoveControlChars THEN removeControlChars(text) ELSE text

\* the line terminators of a text: every LF (alone or after a CR) and every
\* CR that no LF follows
Terminators(s) ==
  {i \in 1..Len(s) : s[i] = LF \/ (s[i] = CR /\ (i = Len(s) \/ s[i + 1] # LF))}

\* C23: for every option combination the output of Clean holds no carriage
\* return, and the text is cut into lines at its terminators, a CRLF pair
\* being one terminator and a lone CR one: the loop sees one line more than
\* there are terminators.
C23_Canonical ==
  pcClean # "input" =>
    /\ \A i \in 1..Len(result) : result[i] # CR
    /\ text # <<>> => Len(pass) = Cardinality(Terminators(Stripped)) + 1

\* a text with a lone CR and a CRLF pair, cut into three lines
C23_Witness ==
  /\ pcClean = "cleaned"
  /\ \E i \in 1..(Len(text) - 1) : text[i] = CR /\ text[i + 1] = LF
  /\ \E i \in 1..(Len(text) - 1) : text[i] = CR /\ text[i + 1] # LF
  /\ Len(pass) = 3

\* two empty lines in a row
HasBlankRun(lines) ==
  \E i \in 1..(Len(lines) - 1) : lines[i] = <<>> /\ lines[i + 1] = <<>>

RECURSIVE SumTotalLines(_)
SumTotalLines(pages) ==
  IF pages = <<>> THEN 0 ELSE Head(pages).TotalLines + SumTotalLines(Tail(pages))

\* C25: in the DocumentResult of every reader each PageContent has
\* TotalLines = len(Lines), the TotalLines of the result is the sum of those of
\* its Pages, and TotalPages is the number of pages, sheets or slides of the
\* document, whatever the configuration selects.
C25_Totals ==
  (pcSel \in {"pdf", "xlsx", "pptx", "md"} /\ err = "nil") =>
    /\ \A k \in 1..Len(docResult.Pages) :
         docResult.Pages[k].TotalLines = Len(docResult.Pages[k].Lines)
    /\ docResult.TotalLines = SumTotalLines(docResult.Pages)
    /\ docResult.TotalPages = Len(doc.pages)

\* C26: the single-page path is the general one at totalPages = 1: whenever
\* buildPageLineMap(config, 1) has an entry for page 0, the lines a single-page
\* reader returns are filterLinesForPage of the page under that entry, also
\* when several overrides name page 0.
C26_SinglePageAsGeneral ==
  (pcSel = "md" /\ err = "nil" /\ 0 \in DOMAIN buildPageLineMap(config, 1)) =>
    docResult.Pages[1].Lines
      = filterLinesForPage(doc.pages[1], buildPageLineMap(config, 1)[0])

\* --------------------------------------------- selectors written otherwise
\* a list with its entries permuted, or with one entry written twice
Rewritings(s) ==
  {[k \in 1..Len(s) |-> s[f[k]]] : f \in Permutations(1..Len(s))}
    \cup {Append(s, s[k]) : k \in 1..Len(s)}
    \cup {<<s[k]>> \o s : k \in 1..Len(s)}

RewrittenSelectors(sel) ==
  {[Indexes |-> ix, Ranges |-> rs] :
     ix \in Rewritings(sel.Indexes), rs \in Rewritings(sel.Ranges)}

\* the configurations that differ from c in how the two selectors are written
RewrittenConfigs(c) ==
  IF c.isNil THEN {c}
  ELSE {[c EXCEPT !.PageSelector = ps, !.LineSelector = ls] :
          ps \in RewrittenSelectors(c.PageSelector),
          ls \in RewrittenSelectors(c.LineSelector)}

Ascending(s) == \A i, j \in 1..Len(s) : i < j => s[i] < s[j]

\* C27: permuting or duplicating the entries of Indexes and Ranges of the page
\* and line selectors changes neither the pages selected nor the lines
\* retained, and determinePagesToRead returns pages in strictly ascending order.
C27_WritingIrrelevant ==
  /\ pcSel = "pages" =>
       /\ Ascending(pagesToRead)
       /\ \A c2 \in RewrittenConfigs(config) :
            determinePagesToRead(c2, totalPages) = pagesToRead
  /\ pcSel = "filter" =>
       \A c2 \in RewrittenConfigs(config) : buildGlobalLineFilter(c2) = lineFilter
  /\ pcSel = "map" =>
       \A c2 \in RewrittenConfigs(config) :
         buildPageLineMap(c2, totalPages) = pageLineMap
  /\ (pcSel = "pdf" /\ err = "nil") =>
       \A c2 \in RewrittenConfigs(config) :
         PdfReadWithConfig(doc, c2).result.Pages = docResult.Pages

\* a PDF read under a configuration with several page indexes and a line
\* selector: some pages returned, some lines left out
C27_Witness ==
  /\ pcSel = "pdf"
  /\ err = "nil"
  /\ Len(config.PageSelector.Indexes) >= 2
  /\ ~IsEmptySelector(config.LineSelector)
  /\ Cardinality(RewrittenConfigs(config)) > 2
  /\ Len(docResult.Pages) >= 2
  /\ docResult.TotalLines > 0
  /\ \E k \in 1..Len(docResult.Pages) :
       Len(docResult.Pages[k].Lines) < Len(doc.pages[docResult.Pages[k].PageNumber + 1])

\* ------------------------------------------------------- non-blank lines
\* C28: Clean never drops, duplicates or reorders a non-blank line: the
\* non-empty lines of the output are the input lines that are non-empty after
\* the per-line processing, in the same order.
C28_NonBlankKept ==
  pcClean # "input" => NonBlank(ResultLines) = NonBlank(ProcessedLines)

\* two non-blank lines returned, a blank line of the input removed
C28_Witness ==
  /\ pcClean = "cleaned"
  /\ Len(NonBlank(ResultLines)) >= 2
  /\ Len(ResultLines) < Len(ProcessedLines)

\* ------------------------------------------------- white space in a line
\* the lines the loop of Clean ranges over
RawLines == IF text = <<>> THEN <<>> ELSE Split(normalizeLineBreaks(Stripped), LF)

\* a line after the optional TrimSpace
Trimmed(line) == IF tc.TrimSpaces THEN TrimSpace(line) ELSE line

\* a line with every maximal run of spaces and tabs replaced by one space: the
\* first character of each run is kept, as a space, the others are left out
Collapsed(t) ==
  LET idx == SelectSeq([k \in 1..Len(t) |-> k],
                       LAMBDA k : ~IsBlankChar(t[k]) \/ k = 1 \/ ~IsBlankChar(t[k - 1]))
  IN [j \in 1..Len(idx) |-> IF IsBlankChar(t[idx[j]]) THEN SP ELSE t[idx[j]]]

WhitespaceOnly(line) == line # <<>> /\ \A k \in 1..Len(line) : IsBlankChar(line[k])

\* C29: with RemoveExtraSpaces every maximal run of spaces and tabs of a
\* non-empty line becomes one space, so no line of the output holds a tab or
\* two adjacent spaces; when TrimSpaces is off as well, a line of spaces and
\* tabs only becomes the line " ", is not blank, reaches the append and
\* resets the count of consecutive blank lines (a blank line after it is the
\* first of its run, skipped only when MaxConsecutiveBlankLines is 0).
C29_SpacesCollapsed ==
  (pcClean # "input" /\ tc.RemoveExtraSpaces) =>
    /\ \A i \in 1..Len(pass) :
         Trimmed(RawLines[i]) # <<>> => pass[i].line = Collapsed(Trimmed(RawLines[i]))
    /\ \A i \in 1..Len(ResultLines) :
         /\ \A k \in 1..Len(ResultLines[i]) : ResultLines[i][k] # TAB
         /\ \A k \in 1..(Len(ResultLines[i]) - 1) :
              ~(ResultLines[i][k] = SP /\ ResultLines[i][k + 1] = SP)
    /\ ~tc.TrimSpaces =>
         \A i \in 1..Len(pass) :
           WhitespaceOnly(RawLines[i]) =>
             /\ pass[i].line = <<SP>>
             /\ pass[i].emit
             /\ (i < Len(pass) /\ pass[i + 1].line = <<>>) =>
                  (pass[i + 1].emit <=> tc.MaxConsecutiveBlankLines # 0)

\* a line of a space and a tab, not trimmed, returned as one space; the blank
\* line after it reaches the append
C29_Witness ==
  /\ pcClean = "cleaned"
  /\ tc.RemoveExtraSpaces
  /\ ~tc.TrimSpaces
  /\ \E i \in 1..(Len(pass) - 1) :
       /\ WhitespaceOnly(RawLines[i])
       /\ Len(RawLines[i]) >= 2
       /\ pass[i].line = <<SP>>
       /\ pass[i + 1].line = <<>>
       /\ pass[i + 1].emit
  /\ ResultLines = <<<<SP>>>>

\* ------------------------------------------------------ builder properties
\* the calls of some methods, in call order
CallsOf(methods) == SelectSeq(history, LAMBDA call : call.name \in methods)

\* the value the last call of a method gave, nothing when it was never called
LastIndexes(method) ==
  IF CallsOf({method}) = <<>> THEN <<>>
  ELSE CallsOf({method})[Len(CallsOf({method}))].indexes

LastNames(method) ==
  IF CallsOf({method}) = <<>> THEN <<>>
  ELSE CallsOf({method})[Len(CallsOf({method}))].names

\* the range of every call of a method, in call order
AllRanges(method) ==
  [k \in 1..Len(CallsOf({method})) |-> CallsOf({method})[k].ranges[1]]

\* C30: after any sequence of builder calls the Indexes of the page (line)
\* selector are the arguments of the last WithPages (WithLines), its Ranges
\* are the arguments of all WithPageRange (WithLineRange) calls in call order,
\* PageConfigs holds one entry for every AddPageConfig, AddPageLines and
\* AddPageLineRange call in call order, duplicates kept, and no field is
\* changed by a method of another field (SheetNames is what the last
\* WithSheetNames gave).
C30_Builders ==
  LET added == CallsOf({"AddPageConfig", "AddPageLines", "AddPageLineRange"})
  IN /\ ~config.isNil
     /\ config.PageSelector.Indexes = LastIndexes("WithPages")
     /\ config.LineSelector.Indexes = LastIndexes("WithLines")
     /\ config.PageSelector.Ranges = AllRanges("WithPageRange")
     /\ config.LineSelector.Ranges = AllRanges("WithLineRange")
     /\ config.SheetNames = LastNames("WithSheetNames")
     /\ config.PageConfigs =
          [k \in 1..Len(added) |->
             [PageIndex |-> added[k].pageIndex,
              LineSelector |-> [Indexes |-> added[k].indexes, Ranges |-> added[k].ranges]]]

\* WithPages called twice with different arguments: the second call's are kept
C30_Witness ==
  /\ Len(history) = 2
  /\ history[1].name = "WithPages"
  /\ history[2].name = "WithPages"
  /\ history[1].indexes # history[2].indexes
  /\ config.PageSelector.Indexes = history[2].indexes

====
